---- MODULE Spec2Model ----
(***************************************************************************)
(* Language-client orchestration of the Docker extension                   *)
(* (src/src/extension.ts): activation with native/fallback selection, the  *)
(* compose client, the configuration-change listeners and deactivation.    *)
(*                                                                         *)
(* The extension runs on one JavaScript thread.  Every action below is one *)
(* run-to-completion slice of the code: from an entry point or the         *)
(* resumption of an await up to the next await whose promise needs I/O.    *)
(***************************************************************************)
EXTENDS Integers, Sequences, FiniteSets, TLC

\* ------------------------------------------------------------------ bounds
\* Number of configuration-change events the host delivers.
MaxEvents == 2
\* Messages that pass the native client's middleware in one run.
MaxMessages == 2

\* ----------------------------------------------------- configuration keys
KeyDockerPath == "docker.dockerPath"
KeyComposeCommand == "docker.composeCommand"
KeyEnvironment == "docker.environment"
KeyUser == "DockerLsp.User"
KeyWorkspace == "DockerLsp.Workspace"
KeyEnableCompose == "docker.enableDockerComposeLanguageService"

Keys == {KeyDockerPath, KeyComposeCommand, KeyEnvironment, KeyUser, KeyWorkspace, KeyEnableCompose}

\* The docker.environment setting is a map; it is held as a set of <<key, value>> pairs.
EnvSettings == { {}, {<<"DOCKER_HOST", "tcp://a">>}, {<<"DOCKER_HOST", "tcp://b">>, <<"DOCKER_CONTEXT", "dev">>} }

\* Values a setting may take ("" stands for unset or empty).
ValuesOf(k) ==
    CASE k = KeyDockerPath -> {"", "/opt/docker"}
      [] k = KeyComposeCommand -> {"", "docker-compose"}
      [] k = KeyEnvironment -> EnvSettings
      [] k = KeyUser -> {"", "alice"}
      [] k = KeyWorkspace -> {"", "ws1"}
      [] k = KeyEnableCompose -> BOOLEAN

MakeConfig(p, c, e, u, w, x) ==
    (KeyDockerPath :> p) @@ (KeyComposeCommand :> c) @@ (KeyEnvironment :> e) @@
    (KeyUser :> u) @@ (KeyWorkspace :> w) @@ (KeyEnableCompose :> x)

\* The settings as the host has them before the user changes any: all unset, the
\* compose language service enabled or disabled.
DefaultConfigs == { MakeConfig("", "", {}, "", "", x) : x \in BOOLEAN }

\* A configuration-change event: the set of settings whose value changed.  One or two
\* settings change per event, which covers every pair of conditions the listeners test.
EventKeySets == { S \in SUBSET Keys : Cardinality(S) \in {1, 2} }

\* The configuration after the settings in `keys` changed (docker.environment to `env`).
ChangedConfig(c, keys, env) ==
    [ k \in Keys |-> IF k \notin keys THEN c[k]
                     ELSE IF k = KeyEnvironment THEN env
                     ELSE CHOOSE v \in ValuesOf(k) : v # c[k] ]

\* e.affectsConfiguration(key)
affectsConfiguration(e, key) == key \in e

\* --------------------------------------------------------------- documents
Languages == {"dockerfile", "dockercompose"}
Schemes == {"file", "untitled"}
Documents == [language : Languages, scheme : Schemes]

\* const DOCUMENT_SELECTOR = [{ language: 'dockerfile', scheme: 'file' }]
DOCUMENT_SELECTOR == { [language |-> "dockerfile", scheme |-> "file"] }

\* documentSelector of the compose client: [{ language: 'dockercompose' }] (any scheme)
COMPOSE_SELECTOR == { [language |-> "dockercompose", scheme |-> "*"] }

\* A document matches a selector when one of its filters matches language and scheme.
Matches(selector, doc) ==
    \E f \in selector : f.language = doc.language /\ (f.scheme = "*" \/ f.scheme = doc.scheme)

\* ------------------------------------------------------------------- state
VARIABLES
    phase,                    \* position of activateInternal / deactivateInternal
    cfg,                      \* the host's configuration
    discovery,                \* outcome of discoverDockerLsp
    sessions,                 \* every LanguageClient constructed, in construction order
    nativeClient,             \* module variable: index into sessions, 0 = undefined
    dockerfileLanguageClient, \* module variable: index into sessions, 0 = undefined
    composeLanguageClient,    \* module variable: index into sessions, 0 = undefined
    composeActivation,        \* outcome of the compose activation callback
    listeners,                \* onDidChangeConfiguration listeners currently registered
    subListeners,             \* listeners held in ctx.subscriptions
    subClients,               \* clients (indices) held in ctx.subscriptions
    envCollection,            \* ext.context.environmentVariableCollection
    dockerClient,             \* container-engine runtime client: its command, its reconfigure() calls
    composeClient,            \* orchestrator runtime client: its command, its reconfigure() calls
    evCount,                  \* configuration-change events delivered so far
    deactivation,             \* what deactivateInternal did
    runtimeClients,           \* runtime client objects registered with the runtime managers
    nativeLaunch,             \* server options the native client was constructed with
    mw,                       \* messages through the native client's middleware
    tele                      \* the latest compose telemetry event and its action context

vars == << phase, cfg, discovery, sessions, nativeClient, dockerfileLanguageClient,
           composeLanguageClient, composeActivation, listeners, subListeners, subClients,
           envCollection, dockerClient, composeClient, evCount, deactivation,
           runtimeClients, nativeLaunch, mw, tele >>

\* ------------------------------------------------------ backend discovery
\* Outcomes of ext.runWithDefaults(client => client.isLspInstalled()).
ProbeOutcomes == {"truthy", "falsy", "throws"}

\* Variant of discoverDockerLsp without the catch clause: an exception of the probe escapes.
discoverDockerLsp_NoCatch(probe) ==
    [ probe |-> probe, raised |-> (probe = "throws"), value |-> (probe = "truthy") ]

\* discoverDockerLsp: the try block returns true on a truthy result, the empty
\* catch swallows an exception, and control then falls to `return false`.
discoverDockerLsp(probe) ==
    LET tryBlock == IF probe = "throws" THEN "exception"
                    ELSE IF probe = "truthy" THEN "return true"
                    ELSE "fallthrough"
        afterCatch == IF tryBlock = "exception" THEN "fallthrough" ELSE tryBlock
    IN  [ probe |-> probe,
          raised |-> (afterCatch = "exception"),
          value |-> (afterCatch = "return true") ]

NoDiscovery == [probe |-> "none", raised |-> FALSE, value |-> FALSE]

\* ---------------------------------------------------------------- sessions
Kinds == {"native", "dockerfile", "compose"}
Alive == {"Starting", "Running", "Stopping"}

\* new LanguageClient(...) followed by start(): the client is constructed with
\* its document selector and its start is under way.
NewSession(kind) ==
    [ kind |-> kind,
      state |-> "Starting",
      pending |-> << >>,     \* requests sent to the server and not yet answered
      notified |-> 0,        \* workspace/didChangeConfiguration notifications sent to it
      starts |-> 1,          \* calls of start() on this client
      selector |-> IF kind = "compose" THEN COMPOSE_SELECTOR ELSE DOCUMENT_SELECTOR ]

\* Variant of BackendsFor that activates both Dockerfile backends.
BackendsFor_Both(found) == <<"native", "dockerfile">>

\* Variant of BackendsFor with the branches of the test exchanged.
BackendsFor_Swapped(found) == IF found THEN <<"dockerfile">> ELSE <<"native">>

\* Variant of BackendsFor that runs the selected activation twice.
BackendsFor_Twice(found) == IF found THEN <<"native", "native">> ELSE <<"dockerfile", "dockerfile">>

\* Variant of BackendsFor in which the native branch activates compose as well.
BackendsFor_NativeWithCompose(found) ==
    IF found THEN <<"native", "compose">> ELSE <<"dockerfile">>

\* if (await discoverDockerLsp()) native else fallback
BackendsFor(found) == IF found THEN <<"native">> ELSE <<"dockerfile">>

\* Variant of ComposeOutcome without the check of the setting.
ComposeOutcome_AlwaysCreated(c) == "created"

\* activateComposeLanguageClient: throws UserCancelledError when the service is disabled.
ComposeOutcome(c) == IF ~c[KeyEnableCompose] THEN "UserCancelledError" ELSE "created"

\* The value an assignment `x = new LanguageClient(...)` leaves in a module variable:
\* the last client of that kind constructed, or the old value when none was.
AssignedClient(seq, kind, old) ==
    LET idx == { i \in 1..Len(seq) : seq[i].kind = kind }
    IN  IF idx = {} THEN old ELSE CHOOSE i \in idx : \A j \in idx : j <= i

\* client.stop(): shuts a starting or running client down; a no-op otherwise.
stop(s) == IF s.state \in {"Starting", "Running"} THEN [s EXCEPT !.state = "Stopping"] ELSE s

\* Variant of sendRequest that puts the new request ahead of those in flight.
sendRequest_Prepend(seq, i, method, n) ==
    IF seq[i].state = "Running"
    THEN [seq EXCEPT ![i].pending = <<[method |-> method, ev |-> n]>> \o @]
    ELSE seq

\* client.sendRequest(method, ...): the request is in flight until the server answers;
\* a client that is not running rejects it at once.
sendRequest(seq, i, method, n) ==
    IF seq[i].state = "Running"
    THEN [seq EXCEPT ![i].pending = Append(@, [method |-> method, ev |-> n])]
    ELSE seq

\* client.sendNotification(DidChangeConfigurationNotification.type, { settings: null }):
\* fire and forget; dropped by a client that is not running.
sendNotification(seq, i) ==
    IF seq[i].state = "Running"
    THEN [seq EXCEPT ![i].notified = @ + 1]
    ELSE seq

\* --------------------------------------------------- environment variables
\* environmentVariableCollection.replace(key, value)
Replace(coll, k, v) == { p \in coll : p[1] # k } \cup { <<k, v>> }

RECURSIVE ReplaceAll(_, _)
ReplaceAll(coll, setting) ==
    IF setting = {} THEN coll
    ELSE LET p == CHOOSE q \in setting : TRUE
         IN  ReplaceAll(Replace(coll, p[1], p[2]), setting \ {p})

\* setEnvironmentVariableContributions: clear(), then replace() for each key of the setting.
setEnvironmentVariableContributions(c) == ReplaceAll({}, c[KeyEnvironment])

\* ----------------------------------------------------------- runtime clients
\* A runtime client as registerDockerClients constructs it.
NewRuntimeClient(command) == [command |-> command, reconfigured |-> 0]

\* client.reconfigure(): the client takes its command from the current setting again;
\* the calls are counted.
reconfigure(client, command) ==
    [command |-> command, reconfigured |-> client.reconfigured + 1]

\* ----------------------------------------------------- native launch options
NoLaunch == [command |-> "", args |-> << >>]

\* Variant of nativeServerOptions that passes the workspace under the --user flag.
nativeServerOptions_UserFlagTwice(c) ==
    LET dockerCommand == IF c[KeyDockerPath] # "" THEN c[KeyDockerPath] ELSE "docker"
        args1 == IF c[KeyUser] # "" THEN <<"lsp", "listen", "--user", c[KeyUser]>>
                 ELSE <<"lsp", "listen">>
        args2 == IF c[KeyWorkspace] # "" THEN args1 \o <<"--user", c[KeyWorkspace]>>
                 ELSE args1
    IN  [command |-> dockerCommand, args |-> args2]

\* activateDockerNativeLanguageClient: the command is config.get('dockerPath') || 'docker';
\* the arguments start as ["lsp", "listen"], then --user and --workspace are pushed for
\* a setting that is truthy and not "".
nativeServerOptions(c) ==
    LET dockerCommand == IF c[KeyDockerPath] # "" THEN c[KeyDockerPath] ELSE "docker"
        user == c[KeyUser]
        workspace == c[KeyWorkspace]
        args0 == <<"lsp", "listen">>
        args1 == IF user # "" THEN args0 \o <<"--user", user>> ELSE args0
        args2 == IF workspace # "" THEN args1 \o <<"--workspace", workspace>> ELSE args1
    IN  [command |-> dockerCommand, args |-> args2]

\* ------------------------------------------------------ middleware, telemetry
\* No message has passed the middleware yet.
NoMessages == [intercepted |-> << >>, delivered |-> << >>, returned |-> << >>, log |-> << >>]

\* Notification parameters handed to an interceptor: a document and its version.
Messages == [uri : {"Dockerfile"}, version : 1..2]

\* What a next stage can answer for a message.
Results == {"sent", "failed"}

\* The next stage is chosen by the language client, not by the interceptor.
NextStages == [Messages -> Results]

\* didOpen: logs "Did open: " + JSON.stringify(data), then returns next(data).
\* calls lists the arguments of each call of next, in order.
didOpen(data, next) ==
    [log |-> <<"Did open: ", data>>, calls |-> <<data>>, result |-> next[data]]

\* Variant of didChange that logs and returns without calling next.
didChange_NoForward(data, next) ==
    [log |-> <<"Did change: ", data>>, calls |-> << >>, result |-> "undefined"]

\* didChange: logs "Did change: " + JSON.stringify(data), then returns next(data).
didChange(data, next) ==
    [log |-> <<"Did change: ", data>>, calls |-> <<data>>, result |-> next[data]]

\* The bookkeeping of one interception: what came in, what reached the next stage,
\* what went back to the caller, what was logged.
Intercepted(m, kind, data, next, r) ==
    [intercepted |-> Append(m.intercepted, [kind |-> kind, data |-> data, next |-> next]),
     delivered   |-> Append(m.delivered, r.calls),
     returned    |-> Append(m.returned, r.result),
     log         |-> Append(m.log, r.log)]

\* No compose telemetry event has been handled yet.
NoTelemetry == [handled |-> FALSE]

\* Maps with keys from K and values from V (JavaScript objects used as dictionaries).
Maps(K, V) == UNION { [D -> V] : D \in SUBSET K }

\* Telemetry events the compose language server can send.  An event without a
\* measurements or properties member is the same to Object.assign as an empty one.
TelemetryEvents ==
    [eventName : {"compose.hover"}, suppressAll : BOOLEAN, suppressIfSuccessful : BOOLEAN,
     measurements : Maps({"duration", "count"}, {0, 1}),
     properties : Maps({"result", "langServerEventName"}, {"Succeeded", "other"})]

\* Telemetry contexts the event registration hands to the handler.
TelemetryContexts ==
    [suppressAll : {FALSE}, suppressIfSuccessful : {FALSE},
     measurements : Maps({"duration"}, {0}),
     properties : Maps({"result"}, {"Succeeded"})]

\* Object.assign(target, source): every own key of source is written into target.
ObjectAssign(target, source) ==
    [k \in DOMAIN target \cup DOMAIN source |->
        IF k \in DOMAIN source THEN source[k] ELSE target[k]]

\* The 'compose-langserver-event' handler, statement by statement.
composeTelemetryHandler(context, evtArgs) ==
    LET named == ObjectAssign(context.properties,
                              [k \in {"langServerEventName"} |-> evtArgs.eventName])
    IN  [suppressAll |-> evtArgs.suppressAll,
         suppressIfSuccessful |-> evtArgs.suppressIfSuccessful,
         measurements |-> ObjectAssign(context.measurements, evtArgs.measurements),
         properties |-> ObjectAssign(named, evtArgs.properties)]

\* -------------------------------------------------------------------- Init
Init ==
    /\ phase = "inactive"
    /\ cfg \in DefaultConfigs
    /\ discovery = NoDiscovery
    /\ sessions = << >>
    /\ nativeClient = 0
    /\ dockerfileLanguageClient = 0
    /\ composeLanguageClient = 0
    /\ composeActivation = "none"
    /\ listeners = {}
    /\ subListeners = {}
    /\ subClients = {}
    /\ envCollection \in EnvSettings    \* the collection is persistent across runs
    /\ dockerClient = NewRuntimeClient("")
    /\ composeClient = NewRuntimeClient("")
    /\ evCount = 0
    /\ deactivation = [invoked |-> {}, error |-> "not called"]
    /\ runtimeClients = {}
    /\ nativeLaunch = NoLaunch
    /\ mw = NoMessages
    /\ tele = NoTelemetry

\* ------------------------------------------------------------- activation
\* activateInternal up to `await discoverDockerLsp()`: the environment variable
\* contributions and the runtime clients are set up with their listeners.
Activate ==
    /\ phase = "inactive"
    /\ phase' = "discovering"
    /\ envCollection' = setEnvironmentVariableContributions(cfg)
    /\ dockerClient' = NewRuntimeClient(cfg[KeyDockerPath])
    /\ composeClient' = NewRuntimeClient(cfg[KeyComposeCommand])
    \* registerDockerClients: the two clients are created and registered once
    /\ runtimeClients' = {"dockerClient", "composeClient"}
    /\ listeners' = listeners \cup {"docker.environment.changed", "docker.command.changed"}
    /\ subListeners' = subListeners \cup {"docker.environment.changed", "docker.command.changed"}
    /\ UNCHANGED << cfg, discovery, sessions, nativeClient, dockerfileLanguageClient,
                    composeLanguageClient, composeActivation, subClients, evCount, deactivation,
                    nativeLaunch, mw, tele >>

\* activateInternal from the resumption of `await discoverDockerLsp()` to its end:
\* the native or the fallback client is constructed and started, then the compose
\* client.  None of the three activations is awaited.
ActivateLanguageClients(probe) ==
    /\ phase = "discovering"
    /\ LET d == discoverDockerLsp(probe)
           co == ComposeOutcome(cfg)
           kinds == BackendsFor(d.value) \o (IF co = "created" THEN <<"compose">> ELSE << >>)
           created == [ i \in 1..Len(kinds) |-> NewSession(kinds[i]) ]
           all == sessions \o created
       IN  /\ discovery' = d
           /\ IF d.raised
              THEN /\ phase' = "failed"
                   /\ UNCHANGED << sessions, nativeClient, dockerfileLanguageClient,
                                   composeLanguageClient, composeActivation, listeners,
                                   subClients, nativeLaunch >>
              ELSE /\ phase' = "active"
                   /\ sessions' = all
                   /\ nativeClient' = AssignedClient(all, "native", nativeClient)
                   /\ dockerfileLanguageClient' = AssignedClient(all, "dockerfile", dockerfileLanguageClient)
                   /\ composeLanguageClient' = AssignedClient(all, "compose", composeLanguageClient)
                   /\ composeActivation' = co
                   /\ nativeLaunch' = IF \E i \in 1..Len(created) : created[i].kind = "native"
                                      THEN nativeServerOptions(cfg) ELSE nativeLaunch
                   \* the native activation registers its listener without keeping the handle
                   /\ listeners' = listeners \cup
                          (IF \E i \in 1..Len(created) : created[i].kind = "native" THEN {"native"} ELSE {})
                   \* the fallback and the compose client are pushed before start()
                   /\ subClients' = subClients \cup
                          { i \in (Len(sessions) + 1)..Len(all) : all[i].kind \in {"dockerfile", "compose"} }
    /\ UNCHANGED << cfg, subListeners, envCollection, dockerClient, composeClient, evCount, deactivation,
                    runtimeClients, mw, tele >>

\* `await client.start()` resolves; the rest of that activation callback runs.
StartSucceeds(i) ==
    /\ i \in 1..Len(sessions)
    /\ sessions[i].state = "Starting"
    \* native: ctx.subscriptions.push(nativeClient); await sendRequest("docker/serverInfo/raw")
    /\ sessions' = LET running == [sessions EXCEPT ![i].state = "Running"]
                   IN  IF sessions[i].kind = "native"
                       THEN sendRequest(running, i, "docker/serverInfo/raw", 0)
                       ELSE running
    /\ subClients' = IF sessions[i].kind = "native" THEN subClients \cup {i} ELSE subClients
    \* fallback: Configuration.initialize(ctx)
    /\ listeners' = IF sessions[i].kind = "dockerfile"
                    THEN listeners \cup {"dockerfile.notify"} ELSE listeners
    /\ subListeners' = IF sessions[i].kind = "dockerfile"
                       THEN subListeners \cup {"dockerfile.notify"} ELSE subListeners
    /\ UNCHANGED << phase, cfg, discovery, nativeClient, dockerfileLanguageClient,
                    composeLanguageClient, composeActivation, envCollection, dockerClient,
                    composeClient, evCount, deactivation,
                    runtimeClients, nativeLaunch, mw, tele >>

\* Variant of StartFails in which the failure of one start takes the other clients down.
StartFails_AbortsAll(i) ==
    /\ i \in 1..Len(sessions)
    /\ sessions[i].state = "Starting"
    /\ sessions' = [ j \in 1..Len(sessions) |->
                       IF j = i THEN [sessions[j] EXCEPT !.state = "StartFailed"]
                       ELSE stop(sessions[j]) ]
    /\ UNCHANGED << phase, cfg, discovery, nativeClient, dockerfileLanguageClient,
                    composeLanguageClient, composeActivation, listeners, subListeners,
                    subClients, envCollection, dockerClient, composeClient, evCount, deactivation,
                    runtimeClients, nativeLaunch, mw, tele >>

\* Variant of StartFails in which a rejected start is retried on the same client.
StartFails_Retry(i) ==
    /\ i \in 1..Len(sessions)
    /\ sessions[i].state = "Starting"
    /\ sessions[i].starts < 3
    /\ sessions' = [sessions EXCEPT ![i].starts = @ + 1]
    /\ UNCHANGED << phase, cfg, discovery, nativeClient, dockerfileLanguageClient,
                    composeLanguageClient, composeActivation, listeners, subListeners,
                    subClients, envCollection, dockerClient, composeClient, evCount, deactivation,
                    runtimeClients, nativeLaunch, mw, tele >>

\* Variant of StartFails in which Configuration.initialize runs although the start failed.
StartFails_Initializes(i) ==
    /\ i \in 1..Len(sessions)
    /\ sessions[i].state = "Starting"
    /\ sessions' = [sessions EXCEPT ![i].state = "StartFailed"]
    /\ listeners' = IF sessions[i].kind = "dockerfile"
                    THEN listeners \cup {"dockerfile.notify"} ELSE listeners
    /\ subListeners' = IF sessions[i].kind = "dockerfile"
                       THEN subListeners \cup {"dockerfile.notify"} ELSE subListeners
    /\ UNCHANGED << phase, cfg, discovery, nativeClient, dockerfileLanguageClient,
                    composeLanguageClient, composeActivation,
                    subClients, envCollection, dockerClient, composeClient, evCount, deactivation,
                    runtimeClients, nativeLaunch, mw, tele >>

\* `await client.start()` rejects; the activation callback of that client ends there.
StartFails(i) ==
    /\ i \in 1..Len(sessions)
    /\ sessions[i].state = "Starting"
    /\ sessions' = [sessions EXCEPT ![i].state = "StartFailed"]
    /\ UNCHANGED << phase, cfg, discovery, nativeClient, dockerfileLanguageClient,
                    composeLanguageClient, composeActivation, listeners, subListeners,
                    subClients, envCollection, dockerClient, composeClient, evCount, deactivation,
                    runtimeClients, nativeLaunch, mw, tele >>

\* --------------------------------------------------- configuration changes
\* Variant of environmentChanged that writes the setting's keys without clearing first.
environmentChanged_NoClear(e, c, coll) ==
    IF affectsConfiguration(e, KeyEnvironment)
    THEN ReplaceAll(coll, c[KeyEnvironment])
    ELSE coll

\* 'docker.environment.changed' listener (registerEnvironmentVariableContributions)
environmentChanged(e, c, coll) ==
    IF affectsConfiguration(e, KeyEnvironment)
    THEN setEnvironmentVariableContributions(c)
    ELSE coll

\* Variant of dockerClientChanged that reconfigures the client on every event.
dockerClientChanged_Always(e, c, client) == reconfigure(client, c[KeyDockerPath])

\* 'docker.command.changed' listener (registerDockerClients), its two tests.
dockerClientChanged(e, c, client) ==
    IF affectsConfiguration(e, KeyDockerPath)
    THEN reconfigure(client, c[KeyDockerPath]) ELSE client

composeClientChanged(e, c, client) ==
    IF affectsConfiguration(e, KeyComposeCommand)
    THEN reconfigure(client, c[KeyComposeCommand]) ELSE client

\* Variant of nativeConfigurationChanged that tests DockerLsp.User only.
nativeConfigurationChanged_UserOnly(e, n, seq) ==
    IF affectsConfiguration(e, KeyUser)
    THEN sendRequest(seq, nativeClient, "docker/login", n)
    ELSE seq

\* the listener of activateDockerNativeLanguageClient: on a change of DockerLsp.User or
\* DockerLsp.Workspace it sends docker/login and does not await the answer.
nativeConfigurationChanged(e, n, seq) ==
    IF affectsConfiguration(e, KeyUser) \/ affectsConfiguration(e, KeyWorkspace)
    THEN sendRequest(seq, nativeClient, "docker/login", n)
    ELSE seq

\* Variant of dockerfileConfigurationChanged that stops the client to restart it.
dockerfileConfigurationChanged_Restart(e, seq) ==
    [seq EXCEPT ![dockerfileLanguageClient] = stop(@)]

\* Variant of dockerfileConfigurationChanged that notifies only on a docker.dockerPath change.
dockerfileConfigurationChanged_OnDockerPath(e, seq) ==
    IF affectsConfiguration(e, KeyDockerPath)
    THEN sendNotification(seq, dockerfileLanguageClient)
    ELSE seq

\* the listener of Configuration.initialize: notifies the fallback server on every event.
dockerfileConfigurationChanged(e, seq) == sendNotification(seq, dockerfileLanguageClient)

\* The host changes the settings in `keys` and fires onDidChangeConfiguration once; the
\* registered listeners run one after the other, each to its return.
ConfigChange(keys, env) ==
    /\ phase # "inactive"
    /\ evCount < MaxEvents
    /\ keys \in EventKeySets
    /\ (KeyEnvironment \in keys) <=> (env # cfg[KeyEnvironment])
    /\ LET c == ChangedConfig(cfg, keys, env) IN
         /\ cfg' = c
         /\ envCollection' = IF "docker.environment.changed" \in listeners
                             THEN environmentChanged(keys, c, envCollection) ELSE envCollection
         /\ dockerClient' = IF "docker.command.changed" \in listeners
                            THEN dockerClientChanged(keys, c, dockerClient) ELSE dockerClient
         /\ composeClient' = IF "docker.command.changed" \in listeners
                             THEN composeClientChanged(keys, c, composeClient) ELSE composeClient
         /\ LET s1 == IF "native" \in listeners
                      THEN nativeConfigurationChanged(keys, evCount + 1, sessions) ELSE sessions
                s2 == IF "dockerfile.notify" \in listeners
                      THEN dockerfileConfigurationChanged(keys, s1) ELSE s1
            IN  sessions' = s2
    /\ evCount' = evCount + 1
    /\ UNCHANGED << phase, discovery, nativeClient, dockerfileLanguageClient,
                    composeLanguageClient, composeActivation, listeners, subListeners,
                    subClients, deactivation,
                    runtimeClients, nativeLaunch, mw, tele >>

\* The server answers (or fails) the j-th request in flight on session i.
RequestCompletes(i, j) ==
    /\ i \in 1..Len(sessions)
    /\ j \in 1..Len(sessions[i].pending)
    /\ sessions' = [sessions EXCEPT ![i].pending =
                        [ k \in 1..(Len(@) - 1) |-> IF k < j THEN @[k] ELSE @[k + 1] ]]
    /\ UNCHANGED << phase, cfg, discovery, nativeClient, dockerfileLanguageClient,
                    composeLanguageClient, composeActivation, listeners, subListeners,
                    subClients, envCollection, dockerClient, composeClient, evCount, deactivation,
                    runtimeClients, nativeLaunch, mw, tele >>

\* ------------------------------------------------------------ deactivation
\* Evaluation of the array literal handed to Promise.all, left to right:
\*   [dockerfileLanguageClient.stop(), composeLanguageClient.stop(), nativeClient.stop()]
\* Calling stop on a module variable that is still undefined throws a TypeError, which
\* ends the evaluation: the later stops are not invoked and Promise.all is not reached.
StopCalls(df, co, na) ==
    IF df = 0 THEN [invoked |-> {}, error |-> "TypeError"]
    ELSE IF co = 0 THEN [invoked |-> {df}, error |-> "TypeError"]
    ELSE IF na = 0 THEN [invoked |-> {df, co}, error |-> "TypeError"]
    ELSE [invoked |-> {df, co, na}, error |-> "none"]

\* deactivateInternal: callWithTelemetryAndErrorHandling (rethrow not set) handles an
\* error of the callback, so deactivateInternal itself resolves.
Deactivate ==
    /\ phase = "active"
    /\ LET r == StopCalls(dockerfileLanguageClient, composeLanguageClient, nativeClient)
       IN  /\ deactivation' = r
           /\ sessions' = [ i \in 1..Len(sessions) |->
                              IF i \in r.invoked THEN stop(sessions[i]) ELSE sessions[i] ]
           /\ phase' = IF r.error = "none"
                          /\ \E i \in r.invoked : stop(sessions[i]).state = "Stopping"
                       THEN "deactivating" ELSE "deactivated"
    /\ UNCHANGED << cfg, discovery, nativeClient, dockerfileLanguageClient,
                    composeLanguageClient, composeActivation, listeners, subListeners,
                    subClients, envCollection, dockerClient, composeClient, evCount,
                    runtimeClients, nativeLaunch, mw, tele >>

\* A stop() promise resolves: the server process has exited.  When it was the last one
\* Promise.all waited for, deactivateInternal returns.
StopCompletes(i) ==
    /\ i \in 1..Len(sessions)
    /\ sessions[i].state = "Stopping"
    /\ sessions' = [sessions EXCEPT ![i].state = "Stopped", ![i].pending = << >>]
    /\ phase' = IF phase = "deactivating"
                   /\ \A j \in deactivation.invoked \ {i} : sessions[j].state # "Stopping"
                THEN "deactivated" ELSE phase
    /\ UNCHANGED << cfg, discovery, nativeClient, dockerfileLanguageClient,
                    composeLanguageClient, composeActivation, listeners, subListeners,
                    subClients, envCollection, dockerClient, composeClient, evCount, deactivation,
                    runtimeClients, nativeLaunch, mw, tele >>

\* After deactivate returned the host disposes ctx.subscriptions: the listeners held
\* there are unregistered and the clients held there are disposed (dispose stops them).
DisposeSubscriptions ==
    /\ phase = "deactivated"
    /\ phase' = "disposed"
    /\ listeners' = listeners \ subListeners
    /\ sessions' = [ i \in 1..Len(sessions) |->
                       IF i \in subClients THEN stop(sessions[i]) ELSE sessions[i] ]
    /\ UNCHANGED << cfg, discovery, nativeClient, dockerfileLanguageClient,
                    composeLanguageClient, composeActivation, subListeners, subClients,
                    envCollection, dockerClient, composeClient, evCount,
                    deactivation,
                    runtimeClients, nativeLaunch, mw, tele >>

\* The running native client hands an opened document to the didOpen interceptor.
DidOpen(data, next) ==
    /\ phase = "active"
    /\ nativeClient # 0
    /\ sessions[nativeClient].state = "Running"
    /\ Len(mw.intercepted) < MaxMessages
    /\ mw' = Intercepted(mw, "didOpen", data, next, didOpen(data, next))
    /\ UNCHANGED << phase, cfg, discovery, sessions, nativeClient, dockerfileLanguageClient,
                    composeLanguageClient, composeActivation, listeners, subListeners,
                    subClients, envCollection, dockerClient, composeClient, evCount,
                    deactivation, runtimeClients, nativeLaunch, tele >>

\* The running native client hands a changed document to the didChange interceptor.
DidChange(data, next) ==
    /\ phase = "active"
    /\ nativeClient # 0
    /\ sessions[nativeClient].state = "Running"
    /\ Len(mw.intercepted) < MaxMessages
    /\ mw' = Intercepted(mw, "didChange", data, next, didChange(data, next))
    /\ UNCHANGED << phase, cfg, discovery, sessions, nativeClient, dockerfileLanguageClient,
                    composeLanguageClient, composeActivation, listeners, subListeners,
                    subClients, envCollection, dockerClient, composeClient, evCount,
                    deactivation, runtimeClients, nativeLaunch, tele >>

\* -------------------------------------------------------------------- Next
Next ==
    \/ Activate
    \/ \E probe \in ProbeOutcomes : ActivateLanguageClients(probe)
    \/ \E i \in 1..Len(sessions) : StartSucceeds(i)
    \/ \E i \in 1..Len(sessions) : StartFails(i)
    \/ \E keys \in EventKeySets : \E env \in EnvSettings : ConfigChange(keys, env)
    \/ \E i \in 1..Len(sessions) : \E j \in 1..Len(sessions[i].pending) : RequestCompletes(i, j)
    \/ Deactivate
    \/ \E i \in 1..Len(sessions) : StopCompletes(i)
    \/ DisposeSubscriptions

Spec == Init /\ [][Next]_vars

\* The running compose client raises onTelemetry; the registered handler bridges the event.
ComposeTelemetry(context, evtArgs) ==
    /\ phase = "active"
    /\ composeLanguageClient # 0
    /\ sessions[composeLanguageClient].state = "Running"
    /\ ~tele.handled
    /\ tele' = [handled |-> TRUE, before |-> context, evt |-> evtArgs,
                after |-> composeTelemetryHandler(context, evtArgs)]
    /\ UNCHANGED << phase, cfg, discovery, sessions, nativeClient, dockerfileLanguageClient,
                    composeLanguageClient, composeActivation, listeners, subListeners,
                    subClients, envCollection, dockerClient, composeClient, evCount,
                    deactivation, runtimeClients, nativeLaunch, mw >>

\* Activation followed by a telemetry event of the compose language server.
NextTelemetry ==
    \/ Activate
    \/ \E probe \in ProbeOutcomes : ActivateLanguageClients(probe)
    \/ \E i \in 1..Len(sessions) : StartSucceeds(i)
    \/ \E i \in 1..Len(sessions) : StartFails(i)
    \/ \E context \in TelemetryContexts : \E evtArgs \in TelemetryEvents :
          ComposeTelemetry(context, evtArgs)

SpecTelemetry == Init /\ [][NextTelemetry]_vars

\* Activation followed by document traffic through the native client's middleware.
NextMiddleware ==
    \/ Activate
    \/ \E probe \in ProbeOutcomes : ActivateLanguageClients(probe)
    \/ \E i \in 1..Len(sessions) : StartSucceeds(i)
    \/ \E i \in 1..Len(sessions) : StartFails(i)
    \/ \E data \in Messages : \E next \in NextStages : DidOpen(data, next)
    \/ \E data \in Messages : \E next \in NextStages : DidChange(data, next)

SpecMiddleware == Init /\ [][NextMiddleware]_vars

\* ================================================================== claims
\* Activation has selected a backend: the language clients have been constructed.
BackendSelected == phase \in {"active", "deactivating", "deactivated", "disposed"}

\* The Sessions a document's events are routed to: those whose document selector matches.
RoutedTo(doc) == { i \in 1..Len(sessions) : Matches(sessions[i].selector, doc) }

\* The Sessions of a kind, and those of them that are alive.
SessionsOf(kind) == { i \in 1..Len(sessions) : sessions[i].kind = kind }
AliveOf(kind) == { i \in SessionsOf(kind) : sessions[i].state \in Alive }

\* C1 as stated: once a backend is selected, every document of language 'dockerfile'
\* is routed to exactly one Session.  (Fails for a document whose scheme is not 'file'.)
C1_Original ==
    BackendSelected =>
        \A doc \in Documents :
            doc.language = "dockerfile" => Cardinality(RoutedTo(doc)) = 1

\* C1 amended: once a backend is selected, every document of language 'dockerfile' and
\* scheme 'file' is routed to exactly one Session, the native or the fallback one,
\* whatever became of that Session's start.
C1_Amended ==
    BackendSelected =>
        \A doc \in Documents :
            (doc.language = "dockerfile" /\ doc.scheme = "file") =>
                /\ Cardinality(RoutedTo(doc)) = 1
                /\ \A i \in RoutedTo(doc) : sessions[i].kind \in {"native", "dockerfile"}

\* C1 witness: the native backend was selected, its start failed, and the Dockerfile
\* file document is routed to it alone.
C1_Witness ==
    /\ BackendSelected
    /\ \E i \in 1..Len(sessions) :
         /\ sessions[i].kind = "native"
         /\ sessions[i].state = "StartFailed"
         /\ RoutedTo([language |-> "dockerfile", scheme |-> "file"]) = {i}

\* C2 as stated: when deactivateInternal has returned, stop was invoked on every Session
\* activation created and each of them has finished stopping.
C2_DeactivationStopsAll ==
    phase = "deactivated" =>
        \A i \in 1..Len(sessions) :
            /\ i \in deactivation.invoked
            /\ sessions[i].state \notin {"Starting", "Running", "Stopping"}

\* C3 as stated: an error raised while deactivating (here by a client that was never
\* created) does not keep the stop of any other Session from being invoked.
C3_ErrorDoesNotSkipStops ==
    (phase \in {"deactivated", "disposed"} /\ deactivation.error # "none") =>
        \A i \in 1..Len(sessions) : i \in deactivation.invoked

\* C4: discovery false starts the fallback Session and never the native one, discovery
\* true starts the native Session and never the fallback one; one path per activation.
C4_OnePathPerDiscovery ==
    BackendSelected =>
        /\ discovery.value = FALSE =>
             (Cardinality(SessionsOf("dockerfile")) = 1 /\ SessionsOf("native") = {}
              /\ dockerfileLanguageClient \in SessionsOf("dockerfile") /\ nativeClient = 0)
        /\ discovery.value = TRUE =>
             (Cardinality(SessionsOf("native")) = 1 /\ SessionsOf("dockerfile") = {}
              /\ nativeClient \in SessionsOf("native") /\ dockerfileLanguageClient = 0)

\* C4 witness: discovery returned false and the fallback Session is running.
C4_Witness ==
    /\ discovery.probe = "falsy"
    /\ discovery.value = FALSE
    /\ \E i \in SessionsOf("dockerfile") : sessions[i].state = "Running"

\* C5: discoverDockerLsp never raises; it resolves to a boolean, and to true only when
\* the probe completed with a truthy result.
C5_DiscoveryNeverRaises ==
    discovery.probe # "none" =>
        /\ discovery.raised = FALSE
        /\ discovery.value \in BOOLEAN
        /\ discovery.value = TRUE => discovery.probe = "truthy"

\* C5 witness: the probe threw and discovery resolved to false, activation going on.
C5_Witness ==
    /\ discovery.probe = "throws"
    /\ discovery.raised = FALSE
    /\ discovery.value = FALSE
    /\ phase = "active"

\* At most one Session of each kind is alive.
NoDuplicateSessions == \A k \in Kinds : Cardinality(AliveOf(k)) <= 1

EventStep == evCount' = evCount + 1
Affected == { k \in Keys : cfg'[k] # cfg[k] }
SelectionKeys == {KeyDockerPath, KeyUser, KeyWorkspace}

\* The native Session is running.
NativeRunning == nativeClient # 0 /\ sessions[nativeClient].state = "Running"

\* No Session is stopped, started, created or replaced by the step.
SessionsKept ==
    /\ Len(sessions') = Len(sessions)
    /\ \A i \in 1..Len(sessions) :
         /\ sessions'[i].kind = sessions[i].kind
         /\ sessions'[i].state = sessions[i].state
    /\ nativeClient' = nativeClient
    /\ dockerfileLanguageClient' = dockerfileLanguageClient
    /\ composeLanguageClient' = composeLanguageClient

\* C7 as stated: a change of docker.dockerPath, DockerLsp.User or DockerLsp.Workspace
\* while the native Session is running stops that Session and starts a new one.
C7_Original ==
    [][ (EventStep /\ NativeRunning /\ Affected \cap SelectionKeys # {}) =>
            /\ sessions'[nativeClient].state \in {"Stopping", "Stopped"}
            /\ Len(sessions') > Len(sessions) ]_vars

\* C7 amended: such a change while the native Session is running stops no Session,
\* re-runs no discovery and creates no Session; when DockerLsp.User or
\* DockerLsp.Workspace changed, one docker/login request is sent to the running native
\* Session; no kind has a duplicate Session before or after.
C7_Amended ==
    [][ (EventStep /\ NativeRunning /\ Affected \cap SelectionKeys # {}) =>
            /\ SessionsKept
            /\ discovery' = discovery
            /\ NoDuplicateSessions /\ NoDuplicateSessions'
            /\ sessions'[nativeClient].pending =
                  IF Affected \cap {KeyUser, KeyWorkspace} # {}
                  THEN Append(sessions[nativeClient].pending,
                              [method |-> "docker/login", ev |-> evCount'])
                  ELSE sessions[nativeClient].pending ]_vars

\* C7 witness: the native Session is running with a docker/login request in flight that
\* a configuration change caused.
C7_Witness ==
    /\ NativeRunning
    /\ \E j \in 1..Len(sessions[nativeClient].pending) :
         /\ sessions[nativeClient].pending[j].method = "docker/login"
         /\ sessions[nativeClient].pending[j].ev >= 1

\* C8: an event that affects no backend-selection setting stops, restarts or replaces no
\* Session; each Session is sent one notification or is left as it was.
C8_NoRestartOnOtherKeys ==
    [][ (EventStep /\ Affected \cap SelectionKeys = {}) =>
            /\ SessionsKept
            /\ \A i \in 1..Len(sessions) :
                 \/ sessions'[i] = sessions[i]
                 \/ sessions'[i] = [sessions[i] EXCEPT !.notified = @ + 1] ]_vars

\* C8 witness: the one event delivered left the backend-selection settings at their
\* initial values and reached the running fallback Session as a notification.
C8_Witness ==
    /\ evCount = 1
    /\ \A k \in SelectionKeys : cfg[k] = ""
    /\ \E i \in SessionsOf("dockerfile") :
         sessions[i].state = "Running" /\ sessions[i].notified = 1

\* C9: when the compose language service is disabled as activation reaches it, the
\* compose activation ends with the user-cancelled error, no compose client is created
\* or started, and the native or fallback Session is created and started as usual.
C9_ComposeDisabled ==
    [][ (phase = "discovering" /\ phase' = "active" /\ ~cfg[KeyEnableCompose]) =>
            /\ composeActivation' = "UserCancelledError"
            /\ composeLanguageClient' = 0
            /\ \A i \in 1..Len(sessions') : sessions'[i].kind # "compose"
            /\ Len(sessions') = Len(sessions) + 1
            /\ sessions'[Len(sessions')].state = "Starting"
            /\ sessions'[Len(sessions')].kind =
                  IF discovery'.value THEN "native" ELSE "dockerfile" ]_vars

\* C9 witness: the compose activation was cancelled, no compose Session exists and the
\* native Session runs.
C9_Witness ==
    /\ composeActivation = "UserCancelledError"
    /\ composeLanguageClient = 0
    /\ SessionsOf("compose") = {}
    /\ NativeRunning

\* The requests in flight on Session i that a configuration change caused.
EventRequests(i) == { j \in 1..Len(sessions[i].pending) : sessions[i].pending[j].ev >= 1 }

\* C10 as stated: the work an event triggers for a Session has finished before the
\* next event's work starts, so a Session never has two event-triggered requests in
\* flight.
C10_Original ==
    \A i \in 1..Len(sessions) : Cardinality(EventRequests(i)) <= 1

\* C10 amended: the listeners of one event return before those of the next event run,
\* so a Session's requests are issued in event order, at most one per event; they are
\* not awaited and may be in flight together.
C10_Amended ==
    \A i \in 1..Len(sessions) :
        \A j, k \in EventRequests(i) :
            /\ sessions[i].pending[j].ev <= evCount
            /\ j < k => sessions[i].pending[j].ev < sessions[i].pending[k].ev

\* C10 witness: two docker/login requests of different events are in flight on the
\* native Session.
C10_Witness ==
    /\ NativeRunning
    /\ \E j, k \in EventRequests(nativeClient) :
         sessions[nativeClient].pending[j].ev < sessions[nativeClient].pending[k].ev

\* C11: a failed start is fatal for its own Session only.  The step in which a start
\* fails leaves every other Session, the module variables and the outcome of the compose
\* activation as they were, and the compose activation has been attempted as soon as a
\* backend is selected, whatever becomes of the native or fallback start.
C11_StartFailureIsLocal ==
    /\ [](BackendSelected => composeActivation # "none")
    /\ [][ \A i \in 1..Len(sessions) :
              (sessions[i].state = "Starting" /\ sessions'[i].state = "StartFailed") =>
                  /\ Len(sessions') = Len(sessions)
                  /\ \A j \in 1..Len(sessions) : j # i => sessions'[j] = sessions[j]
                  /\ composeActivation' = composeActivation
                  /\ nativeClient' = nativeClient
                  /\ dockerfileLanguageClient' = dockerfileLanguageClient
                  /\ composeLanguageClient' = composeLanguageClient ]_vars

\* C11 witness: the native start failed and the compose Session, started by the same
\* activation, runs.
C11_Witness ==
    /\ phase = "active"
    /\ \E i \in SessionsOf("native") : sessions[i].state = "StartFailed"
    /\ \E i \in SessionsOf("compose") : sessions[i].state = "Running"

\* C12: every interception (didOpen or didChange of the native client) calls the next
\* stage exactly once, with the very message it received, and returns to its caller
\* what that call of the next stage returned.
C12_MiddlewareForwardsOnce ==
    /\ Len(mw.delivered) = Len(mw.intercepted)
    /\ Len(mw.returned) = Len(mw.intercepted)
    /\ \A i \in 1..Len(mw.intercepted) :
          /\ mw.delivered[i] = << mw.intercepted[i].data >>
          /\ mw.returned[i] = mw.intercepted[i].next[mw.intercepted[i].data]

\* Both interceptors have handled a message, and the next stage answered them differently.
C12_Witness ==
    /\ \E i \in 1..Len(mw.intercepted) : mw.intercepted[i].kind = "didOpen"
    /\ \E i \in 1..Len(mw.intercepted) : mw.intercepted[i].kind = "didChange"
    /\ \E i, j \in 1..Len(mw.returned) : mw.returned[i] # mw.returned[j]

\* C13: bridging a compose telemetry event never overwrites an entry already present:
\* every key the context's measurements and properties had before the merge keeps
\* its value, and langServerEventName keeps the event name it was just given.
C13_MergeNeverOverwrites ==
    tele.handled =>
        /\ \A k \in DOMAIN tele.before.measurements :
              tele.after.measurements[k] = tele.before.measurements[k]
        /\ \A k \in DOMAIN tele.before.properties \ {"langServerEventName"} :
              tele.after.properties[k] = tele.before.properties[k]
        /\ tele.after.properties["langServerEventName"] = tele.evt.eventName

\* C14: every configuration-change listener registered during activation is held in
\* ctx.subscriptions, so once the host has disposed the subscriptions after a
\* deactivation no configuration-change listener of that activation is left registered.
C14_ListenersAreDisposable ==
    /\ listeners \subseteq subListeners
    /\ phase = "disposed" => listeners = {}

\* C15: the lifecycle of a Session instance only moves forward.  start() is called once
\* on it and never again; a Session whose start failed stays failed; a stopped Session
\* stays stopped; a stopping Session can only become stopped; no Session is dropped or
\* replaced in place by one of another kind.
C15_LifecycleMonotonic ==
    /\ [](\A i \in 1..Len(sessions) : sessions[i].starts = 1)
    /\ [][ /\ Len(sessions') >= Len(sessions)
           /\ \A i \in 1..Len(sessions) :
                 /\ sessions'[i].kind = sessions[i].kind
                 /\ sessions'[i].starts = sessions[i].starts
                 /\ sessions[i].state \in {"StartFailed", "Stopped"} =>
                        sessions'[i].state = sessions[i].state
                 /\ sessions'[i].state = "Starting" => sessions[i].state = "Starting"
                 /\ sessions[i].state = "Stopping" =>
                        sessions'[i].state \in {"Stopping", "Stopped"} ]_vars

\* After deactivation and disposal: one Session's start had failed, another was stopped.
C15_Witness ==
    /\ phase = "disposed"
    /\ \E i \in 1..Len(sessions) : sessions[i].state = "StartFailed"
    /\ \E i \in 1..Len(sessions) : sessions[i].state = "Stopped"

\* C16: while the 'docker.command.changed' listener is registered, an event
\* reconfigures the container-engine client (once) if and only if it affects
\* docker.dockerPath and the orchestrator client (once) if and only if it affects
\* docker.composeCommand; the registered client objects stay the same ones and no
\* Session is stopped, started or replaced.
C16_ReconfigureIffAffected ==
    [][ (EventStep /\ "docker.command.changed" \in listeners) =>
            /\ dockerClient' = IF KeyDockerPath \in Affected
                               THEN [command |-> cfg'[KeyDockerPath],
                                     reconfigured |-> dockerClient.reconfigured + 1]
                               ELSE dockerClient
            /\ composeClient' = IF KeyComposeCommand \in Affected
                                THEN [command |-> cfg'[KeyComposeCommand],
                                      reconfigured |-> composeClient.reconfigured + 1]
                                ELSE composeClient
            /\ runtimeClients' = runtimeClients
            /\ runtimeClients = {"dockerClient", "composeClient"}
            /\ SessionsKept ]_vars

\* One event changed docker.dockerPath only: the container-engine client was
\* reconfigured, the orchestrator client was not, while a Session was running.
C16_Witness ==
    /\ evCount = 1
    /\ "docker.command.changed" \in listeners
    /\ dockerClient.reconfigured = 1
    /\ dockerClient.command = cfg[KeyDockerPath]
    /\ composeClient.reconfigured = 0
    /\ \E i \in 1..Len(sessions) : sessions[i].state = "Running"

\* C17: whatever discovery answers, one activation attempts the compose activation
\* exactly once (it creates one compose Session or ends with the user-cancelled error),
\* and neither the selection step nor the failure of the native or fallback start stops,
\* restarts or replaces the compose Session: only deactivation and disposal end it.
C17_ComposeIndependent ==
    /\ [](BackendSelected =>
            /\ composeActivation \in {"created", "UserCancelledError"}
            /\ Cardinality(SessionsOf("compose")) = IF composeActivation = "created" THEN 1 ELSE 0)
    /\ [][ /\ (phase = "discovering" /\ phase' = "active") =>
                 /\ composeActivation' = IF cfg[KeyEnableCompose]
                                         THEN "created" ELSE "UserCancelledError"
                 /\ \A i \in SessionsOf("compose")' : sessions'[i].state = "Starting"
           /\ (phase' \in {"discovering", "active"}) =>
                 \A i \in SessionsOf("compose") :
                     /\ sessions'[i].kind = "compose"
                     /\ sessions'[i].starts = sessions[i].starts
                     /\ sessions'[i].state = sessions[i].state
                           \/ (sessions[i].state = "Starting" /\
                               sessions'[i].state \in {"Running", "StartFailed"})
           /\ composeActivation # "none" => composeActivation' = composeActivation ]_vars

\* Discovery found no native server and the fallback start failed: the compose
\* Session, created by the same activation, runs.
C17_Witness ==
    /\ phase = "active"
    /\ ~discovery.value
    /\ composeActivation = "created"
    /\ \E i \in SessionsOf("dockerfile") : sessions[i].state = "StartFailed"
    /\ \E i \in SessionsOf("compose") : sessions[i].state = "Running"

\* C18: while the fallback Dockerfile Session is running, every configuration-change
\* event sends it exactly one workspace/didChangeConfiguration notification, whatever
\* settings the event affects, and stops, restarts or replaces no Session.
C18_OneNotificationPerEvent ==
    [][ \A i \in SessionsOf("dockerfile") :
           (EventStep /\ sessions[i].state = "Running") =>
               /\ i = dockerfileLanguageClient
               /\ sessions'[i] = [sessions[i] EXCEPT !.notified = @ + 1]
               /\ SessionsKept ]_vars

\* Two events were delivered to the running fallback Session: it got two notifications
\* and still runs.
C18_Witness ==
    /\ evCount = 2
    /\ \E i \in SessionsOf("dockerfile") :
         sessions[i].state = "Running" /\ sessions[i].notified = 2

\* C19: the native client is constructed with the command docker.dockerPath, or
\* 'docker' when that setting is unset or empty, and with the arguments 'lsp', 'listen',
\* then '--user' u exactly when DockerLsp.User is a non-empty u, then '--workspace' w
\* exactly when DockerLsp.Workspace is a non-empty w, and nothing else.
C19_NativeLaunchArguments ==
    [][ (phase = "discovering" /\ phase' = "active" /\ discovery'.value) =>
            LET u == cfg[KeyUser]
                w == cfg[KeyWorkspace]
                args == nativeLaunch'.args
                n == Len(args)
            IN  /\ nativeLaunch'.command =
                      IF cfg[KeyDockerPath] = "" THEN "docker" ELSE cfg[KeyDockerPath]
                /\ n = 2 + (IF u # "" THEN 2 ELSE 0) + (IF w # "" THEN 2 ELSE 0)
                /\ args[1] = "lsp" /\ args[2] = "listen"
                /\ u # "" => (args[3] = "--user" /\ args[4] = u)
                /\ w # "" => (args[n - 1] = "--workspace" /\ args[n] = w)
                /\ u = "" => \A i \in 1..n : args[i] # "--user"
                /\ w = "" => \A i \in 1..n : args[i] # "--workspace" ]_vars

\* The native Session runs, launched from a configured path with both options.
C19_Witness ==
    /\ NativeRunning
    /\ nativeLaunch = [command |-> "/opt/docker",
                       args |-> <<"lsp", "listen", "--user", "alice", "--workspace", "ws1">>]

\* C20: the fallback Session's notification listener is registered only once that
\* Session's start has succeeded: while it is registered the fallback client exists and
\* is neither starting nor failed; a Session that is starting or whose start failed has
\* been sent no notification; and when the native backend was selected the listener is
\* never registered and no notification is sent to any Session.
C20_NotifyOnlyAfterStart ==
    /\ "dockerfile.notify" \in listeners =>
          /\ dockerfileLanguageClient # 0
          /\ sessions[dockerfileLanguageClient].kind = "dockerfile"
          /\ sessions[dockerfileLanguageClient].state \notin {"Starting", "StartFailed"}
    /\ \A i \in 1..Len(sessions) :
          sessions[i].state \in {"Starting", "StartFailed"} => sessions[i].notified = 0
    /\ (BackendSelected /\ discovery.value) =>
          /\ "dockerfile.notify" \notin listeners
          /\ \A i \in 1..Len(sessions) : sessions[i].notified = 0

\* The fallback start failed and every event of the run was delivered: no listener was
\* registered and the Session was sent no notification.
C20_Witness ==
    /\ phase = "active"
    /\ evCount = MaxEvents
    /\ dockerfileLanguageClient # 0
    /\ sessions[dockerfileLanguageClient].state = "StartFailed"
    /\ sessions[dockerfileLanguageClient].notified = 0
    /\ "dockerfile.notify" \notin listeners

\* C21: from activation on, while the 'docker.environment.changed' listener is
\* registered, the environment-variable collection holds exactly the key/value pairs
\* of the docker.environment setting as it stands (its value at the last event that
\* affected it, or at activation), one value per key, so keys dropped from the setting
\* are dropped from the collection; and an event that does not affect
\* docker.environment leaves the collection as it was.
C21_CollectionFollowsSetting ==
    /\ []("docker.environment.changed" \in listeners =>
            /\ envCollection = cfg[KeyEnvironment]
            /\ \A p, q \in envCollection : p[1] = q[1] => p = q)
    /\ [][ (EventStep /\ KeyEnvironment \notin Affected) =>
               envCollection' = envCollection ]_vars

\* An event gave docker.environment two variables and the collection holds both, while
\* a Session runs.
C21_Witness ==
    /\ phase = "active"
    /\ evCount >= 1
    /\ "docker.environment.changed" \in listeners
    /\ Cardinality(cfg[KeyEnvironment]) = 2
    /\ envCollection = {<<"DOCKER_HOST", "tcp://b">>, <<"DOCKER_CONTEXT", "dev">>}
    /\ \E i \in 1..Len(sessions) : sessions[i].state = "Running"

====
